---- MODULE Spec2Model ----
(***************************************************************************)
(* A model of the entity/generation allocator, the component registry with *)
(* its reader/writer locks, the Appendix (next, add_queue, sub_queue) and  *)
(* the Scheduler's dispatch protocol of src/src/lib.rs.                    *)
(*                                                                         *)
(* Threads: the driver (thread 0) calls the Scheduler's API; the workers   *)
(* 1..poolSize of the thread pool run the dispatched bodies.  Every step   *)
(* of a thread is one action; a step that must take a lock is enabled only *)
(* when the lock can be taken, so a thread blocked on a lock is a thread   *)
(* whose next action is disabled.                                          *)
(***************************************************************************)
EXTENDS Integers, Sequences, FiniteSets, TLC

\* ---------------------------------------------------------------- bounds
\* Largest length the generation table may reach.
MaxIndex == 2
\* Largest generation an allocation may issue.
MaxGen == 3
\* Largest length of add_queue and of sub_queue.
MaxQueue == 2
\* Largest size of the worker pool (Scheduler::new's num_threads).
MaxThreads == 2
\* Largest number of dispatch calls (run) of one execution.
MaxDispatch == 2
\* Largest number of runs of inserting bodies in the lifecycle specification.
MaxRaw == 1
\* Largest number of insert()/remove() calls of one raw system body.
MaxBodyOps == 2
\* Largest number of write types, and of read types, of a typed run.
MaxArity == 1
\* Largest component value the driver attaches with `with`.
MaxVal == 2
\* Largest length of a generation table handed to the pure functions.
MaxLen == 3

\* ------------------------------------------------------------ vocabulary
\* The registered component types.
Comps == {"A", "B"}
\* The locks: one per storage, the generation table's, the Appendix's.
LockNames == Comps \cup {"gens", "app"}
\* Thread ids: the driver and the pool's workers.
Driver == 0
Workers == 1..MaxThreads
\* "no thread", "no value", "no entity".
NoThread == -1
None == 0
Entity(id, gen) == [id |-> id, gen |-> gen]
NoEnt == Entity(-1, 0)
\* Entity handles a caller may hold.
Handles == {Entity(i, g) : i \in 0..(MaxIndex - 1), g \in 1..MaxGen}

\* ------------------------------------------------------- pure functions
\* Entity::get_id, Entity::get_gen.
get_id(e) == e.id
get_gen(e) == e.gen

\* A scan that takes only the slots with a negative generation for free.
RECURSIVE find_scan_neg(_, _)
find_scan_neg(gens, i) ==
    IF i >= Len(gens) THEN Entity(Len(gens), 1)
    ELSE IF gens[i + 1] < 0 THEN Entity(i, 1 - gens[i + 1])
    ELSE find_scan_neg(gens, i + 1)

\* World::find_next: the first slot at or after base whose generation is
\* <= 0, as Entity(id, 1 - gen); Entity(len, 1) when the scan finds none.
RECURSIVE find_scan(_, _)
find_scan(gens, i) ==
    IF i >= Len(gens) THEN Entity(Len(gens), 1)
    ELSE IF gens[i + 1] <= 0 THEN Entity(i, 1 - gens[i + 1])
    ELSE find_scan(gens, i + 1)

find_next(gens, base) == find_scan(gens, base)

\* An iterator that yields the slots whose generation is not negative.
RECURSIVE iter_scan_nonneg(_, _)
iter_scan_nonneg(gens, index) ==
    IF index >= Len(gens) THEN [ent |-> NoEnt, index |-> index]
    ELSE IF gens[index + 1] >= 0
         THEN [ent |-> Entity(index, gens[index + 1]), index |-> index + 1]
    ELSE iter_scan_nonneg(gens, index + 1)

\* EntityIter::next: from position index, skip the slots with gen <= 0;
\* the result is the entity found (NoEnt for None) and the new position.
RECURSIVE iter_scan(_, _)
iter_scan(gens, index) ==
    IF index >= Len(gens) THEN [ent |-> NoEnt, index |-> index]
    ELSE IF gens[index + 1] > 0
         THEN [ent |-> Entity(index, gens[index + 1]), index |-> index + 1]
    ELSE iter_scan(gens, index + 1)

EntityIter_next(gens, index) == iter_scan(gens, index)

\* NewEntityIter::next: add_queue.get(index), then index += 1.
NewEntityIter_next(queue, index) ==
    [ent |-> IF index < Len(queue) THEN queue[index + 1] ELSE NoEnt,
     index |-> index + 1]

\* World::entities collected: the whole pass of one EntityIter.
RECURSIVE collect(_, _)
collect(gens, index) ==
    LET r == EntityIter_next(gens, index)
    IN IF r.ent = NoEnt THEN << >> ELSE << r.ent >> \o collect(gens, r.index)

entities(gens) == collect(gens, 0)

\* The storage collaborator, addressed by slot index: get, insert, del.
EmptyStorage == [i \in 0..(MaxIndex - 1) |-> None]
storage_get(s, e) == IF get_id(e) \in DOMAIN s THEN s[get_id(e)] ELSE None
storage_insert(s, e, v) == [s EXCEPT ![get_id(e)] = v]
storage_del(s, e) == IF get_id(e) \in DOMAIN s THEN [s EXCEPT ![get_id(e)] = None] ELSE s

\* RwLock: read() can return when no writer holds the lock, write() when
\* nobody holds it.
Unlocked == [w |-> NoThread, r |-> {}]
\* A read() that does not wait for the writer.
CanRead_anyway(l) == TRUE
CanRead(l) == l.w = NoThread
CanWrite(l) == l.w = NoThread /\ l.r = {}

\* ----------------------------------------------------------------- state
VARIABLES
    generations,  \* World.generations: the table, slot i at position i + 1
    storages,     \* World.components: one storage per registered type
    app,          \* Appendix: next, add_queue, sub_queue
    locks,        \* the RwLocks: writer thread (or NoThread) and reader set
    poolSize,     \* the thread pool's size
    jobs,         \* the thread pool's channel of jobs not yet taken
    wk,           \* the workers: position and locals of the body each runs
    drv,          \* the driver: position and locals of the call it is in
    pulsed,       \* whether the Signal of the latest run has been pulsed
    ndisp,        \* number of run calls so far (also the latest job's id)
    fatal,        \* "none", or the assertion/panic that ended the program
    issued,       \* history: per index, the largest generation add_entity returned
    stamps,       \* history: per entry of add_queue, ndisp when it was queued
    seen          \* the storage as the driver sees it through its read guard

vars == << generations, storages, app, locks, poolSize, jobs, wk, drv,
           pulsed, ndisp, fatal, issued, stamps, seen >>

\* A worker with no job.
\* cell: WorldArg.pulse, "some" while it holds the Pulse; fetches: the calls
\* of fetch; fcalls: the closures fetch has run; fired: the pulses fired.
NoJob == [kind |-> "none", W |-> << >>, R |-> << >>, id |-> 0]
\* k: the guards fetch's closure has taken; index: the iterator's position;
\* ent: the entity the body inserted last; ops: the calls the body has made.
\* History: log1/log2, the entities each loop called the functor for; pre,
\* the storages as they were when fetch returned.
IdleWorker == [pc |-> "idle", job |-> NoJob, k |-> 0, index |-> 0,
               log1 |-> << >>, log2 |-> << >>, ent |-> NoEnt, ops |-> 0,
               pre |-> << >>, cell |-> "none", fetches |-> 0, fcalls |-> 0,
               fired |-> 0]
\* The driver between two calls.
\* ent: the entity of the call (add_entity's result, del_entity's argument);
\* todo: the storages del_entity has still to visit; comp: the storage read.
\* History: killed/below, the live entity the latest call killed (if that
\* call was del_entity and nothing was allocated or merged since) and
\* whether its index preceded next's; after/afterBelow, the same as
\* add_entity found them when it was called; prior, the largest generation
\* issued before for the index add_entity has just returned.
\* q: the Appendix and the table as rest found them, kept until rest returns.
\* runs: the runs called so far, the typed ones with their types.
\* index: the position of the EntityIter the driver holds; out: what it has
\* yielded so far.
NoApp == [next |-> NoEnt, add_queue |-> << >>, sub_queue |-> << >>, gens |-> << >>]
IdleDriver == [pc |-> "idle", ent |-> NoEnt, todo |-> {}, comp |-> "",
               killed |-> NoEnt, below |-> FALSE, after |-> NoEnt,
               afterBelow |-> FALSE, prior |-> 0, q |-> NoApp, runs |-> << >>,
               index |-> 0, out |-> << >>]

\* World::new with A and B registered, then Scheduler::new(world, n).
Init ==
    /\ generations = << >>
    /\ storages = [c \in Comps |-> EmptyStorage]
    /\ app = [next |-> find_next(<< >>, 0), add_queue |-> << >>, sub_queue |-> << >>]
    /\ locks = [l \in LockNames |-> Unlocked]
    /\ poolSize \in 1..MaxThreads
    /\ jobs = << >>
    /\ wk = [w \in Workers |-> IdleWorker]
    /\ drv = IdleDriver
    /\ pulsed = FALSE
    /\ ndisp = 0
    /\ fatal = "none"
    /\ issued = [i \in 0..(MaxIndex - 1) |-> 0]
    /\ stamps = << >>
    /\ seen = EmptyStorage

\* Taking and dropping lock guards.
write_lock(l, t) == [locks EXCEPT ![l].w = t]
read_lock(l, t) == [locks EXCEPT ![l].r = @ \cup {t}]
unlock(lk, l, t) ==
    [lk EXCEPT ![l] = [w |-> IF @.w = t THEN NoThread ELSE @.w, r |-> @.r \ {t}]]

\* ------------------------------------------------- Scheduler::add_entity
\* self.appendix.write(): the driver takes the Appendix for writing.
add_entity_lock ==
    /\ fatal = "none"
    /\ drv.pc = "idle"
    /\ CanWrite(locks["app"])
    /\ get_gen(app.next) <= MaxGen
    /\ get_gen(app.next) = 1 => get_id(app.next) < MaxIndex
    /\ locks' = write_lock("app", Driver)
    /\ drv' = [drv EXCEPT !.pc = "add_entity"]
    /\ UNCHANGED << generations, storages, app, poolSize, jobs, wk, pulsed,
                    ndisp, fatal, issued, stamps, seen >>

\* The table after add_entity's `if ent.get_gen() == 1 { gens.push(..) }`.
add_entity_gens(gens, ent) ==
    IF get_gen(ent) = 1 THEN Append(gens, get_gen(ent)) ELSE gens

\* The rest of add_entity: the assertions, the push under the table's write
\* lock, the new prediction under its read lock, the builder returned.
add_entity_body ==
    /\ fatal = "none"
    /\ drv.pc = "add_entity"
    /\ LET ent == app.next
           gens == add_entity_gens(generations, ent)
       IN IF get_gen(ent) <= 0
          THEN /\ fatal' = "add_entity: gen > 0"
               /\ UNCHANGED << generations, app, locks, drv, issued >>
          ELSE /\ IF get_gen(ent) = 1
                  THEN CanWrite(locks["gens"])
                  ELSE CanRead(locks["gens"])
               /\ IF get_gen(ent) = 1 /\ Len(generations) # get_id(ent)
                  THEN /\ fatal' = "add_entity: gens.len() == id"
                       /\ UNCHANGED << generations, app, locks, drv, issued >>
                  ELSE /\ generations' = gens
                       /\ app' = [app EXCEPT !.next = find_next(gens, get_id(ent) + 1)]
                       /\ locks' = unlock(locks, "app", Driver)
                       /\ drv' = [drv EXCEPT !.pc = "builder", !.ent = ent,
                                             !.after = drv.killed,
                                             !.afterBelow = drv.below,
                                             !.killed = NoEnt,
                                             !.below = FALSE,
                                             !.prior = issued[get_id(ent)]]
                       /\ issued' = [issued EXCEPT ![get_id(ent)] =
                                        IF get_gen(ent) > @ THEN get_gen(ent) ELSE @]
                       /\ fatal' = fatal
    /\ UNCHANGED << storages, poolSize, jobs, wk, pulsed, ndisp, stamps, seen >>


\* EntityBuilder::with: write::<T>() on the storage, insert(entity, value).
with(c, v) ==
    /\ fatal = "none"
    /\ drv.pc = "builder"
    /\ CanWrite(locks[c])
    /\ storages' = [storages EXCEPT ![c] = storage_insert(@, drv.ent, v)]
    /\ UNCHANGED << generations, app, locks, poolSize, jobs, wk, drv, pulsed,
                    ndisp, fatal, issued, stamps, seen >>

\* EntityBuilder::build, or the builder dropped.
build ==
    /\ fatal = "none"
    /\ drv.pc = "builder"
    /\ drv' = [drv EXCEPT !.pc = "idle", !.ent = NoEnt, !.after = NoEnt,
                          !.afterBelow = FALSE, !.prior = 0]
    /\ UNCHANGED << generations, storages, app, locks, poolSize, jobs, wk,
                    pulsed, ndisp, fatal, issued, stamps, seen >>

\* ------------------------------------------------- Scheduler::del_entity
\* The call, with any handle the caller holds.
del_entity_call(e) ==
    /\ fatal = "none"
    /\ drv.pc = "idle"
    /\ drv' = [drv EXCEPT !.pc = "del_slice", !.ent = e, !.todo = Comps,
                          !.killed = NoEnt, !.below = FALSE]
    /\ UNCHANGED << generations, storages, app, locks, poolSize, jobs, wk,
                    pulsed, ndisp, fatal, issued, stamps, seen >>

\* StorageLock::del_slice(&[entity]) on one registered storage (the map's
\* values come in no fixed order): write lock, del, unlock.
del_slice(c) ==
    /\ fatal = "none"
    /\ drv.pc = "del_slice"
    /\ c \in drv.todo
    /\ CanWrite(locks[c])
    /\ storages' = [storages EXCEPT ![c] = storage_del(@, drv.ent)]
    /\ drv' = [drv EXCEPT !.todo = @ \ {c}]
    /\ UNCHANGED << generations, app, locks, poolSize, jobs, wk, pulsed,
                    ndisp, fatal, issued, stamps, seen >>

\* generations.write(), &mut gens[id] (out of bounds panics), assert!(*gen > 0).
del_entity_gens ==
    /\ fatal = "none"
    /\ drv.pc = "del_slice"
    /\ drv.todo = {}
    /\ CanWrite(locks["gens"])
    /\ IF get_id(drv.ent) >= Len(generations)
       THEN /\ fatal' = "del_entity: index out of bounds"
            /\ UNCHANGED << locks, drv >>
       ELSE IF generations[get_id(drv.ent) + 1] <= 0
       THEN /\ fatal' = "del_entity: *gen > 0"
            /\ UNCHANGED << locks, drv >>
       ELSE /\ locks' = write_lock("gens", Driver)
            /\ drv' = [drv EXCEPT !.pc = "del_entity"]
            /\ fatal' = fatal
    /\ UNCHANGED << generations, storages, app, poolSize, jobs, wk, pulsed,
                    ndisp, issued, stamps, seen >>

\* del_entity predicting the killed index wherever next stands.
del_entity_next_always(next, entity, gen) == Entity(get_id(entity), gen + 1)

\* del_entity predicting the killed generation again, without the + 1.
del_entity_next_same(next, entity, gen) ==
    IF get_id(entity) < get_id(next) THEN Entity(get_id(entity), gen) ELSE next

\* The new prediction of del_entity.
del_entity_next(next, entity, gen) ==
    IF get_id(entity) < get_id(next) THEN Entity(get_id(entity), gen + 1) ELSE next

\* appendix.write() with the table still held, the prediction, *gen *= -1.
del_entity_app ==
    /\ fatal = "none"
    /\ drv.pc = "del_entity"
    /\ CanWrite(locks["app"])
    /\ LET id == get_id(drv.ent)
           gen == generations[id + 1]
       IN /\ app' = [app EXCEPT !.next = del_entity_next(@, drv.ent, gen)]
          /\ generations' = [generations EXCEPT ![id + 1] = gen * (-1)]
          /\ drv' = [drv EXCEPT !.pc = "idle", !.ent = NoEnt,
                                !.killed = IF get_gen(drv.ent) = gen
                                           THEN drv.ent ELSE NoEnt,
                                !.below = (get_gen(drv.ent) = gen
                                           /\ id < get_id(app.next))]
    /\ locks' = unlock(locks, "gens", Driver)
    /\ UNCHANGED << storages, poolSize, jobs, wk, pulsed, ndisp, fatal,
                    issued, stamps, seen >>


\* ------------------------------------------------------- Scheduler::rest
\* `while gens.len() <= ent.get_id() { gens.push(0) }`.
RECURSIVE rest_grow(_, _)
rest_grow(gens, id) ==
    IF Len(gens) <= id THEN rest_grow(Append(gens, 0), id) ELSE gens

\* The loop over add_queue: the table it leaves, and whether every assert_eq
\* held (the loop stops at the first one that fails).
RECURSIVE rest_add(_, _)
rest_add(gens, queue) ==
    IF queue = << >> THEN [gens |-> gens, ok |-> TRUE]
    ELSE LET ent == Head(queue)
             grown == rest_grow(gens, get_id(ent))
         IN IF get_gen(ent) # 1 - grown[get_id(ent) + 1]
            THEN [gens |-> grown, ok |-> FALSE]
            ELSE rest_add([grown EXCEPT ![get_id(ent) + 1] = get_gen(ent)],
                          Tail(queue))

\* The loop over sub_queue without its `gens[id] *= -1`.
RECURSIVE rest_sub_alive(_, _, _)
rest_sub_alive(gens, next, queue) ==
    IF queue = << >> THEN [gens |-> gens, next |-> next, ok |-> TRUE]
    ELSE LET ent == Head(queue)
         IN IF get_id(ent) >= Len(gens) \/ get_gen(ent) # gens[get_id(ent) + 1]
            THEN [gens |-> gens, next |-> next, ok |-> FALSE]
            ELSE rest_sub_alive(gens,
                                IF get_id(ent) < get_id(next)
                                THEN Entity(get_id(ent), get_gen(ent) + 1)
                                ELSE next,
                                Tail(queue))

\* The loop over sub_queue: the table and the prediction it leaves, and
\* whether every index was in bounds and every assert_eq held.
RECURSIVE rest_sub(_, _, _)
rest_sub(gens, next, queue) ==
    IF queue = << >> THEN [gens |-> gens, next |-> next, ok |-> TRUE]
    ELSE LET ent == Head(queue)
         IN IF get_id(ent) >= Len(gens) \/ get_gen(ent) # gens[get_id(ent) + 1]
            THEN [gens |-> gens, next |-> next, ok |-> FALSE]
            ELSE rest_sub([gens EXCEPT ![get_id(ent) + 1] = @ * (-1)],
                          IF get_id(ent) < get_id(next)
                          THEN Entity(get_id(ent), get_gen(ent) + 1)
                          ELSE next,
                          Tail(queue))

\* A rest that bumps the prediction's generation as it stores it.
rest_app_bumped(next) ==
    [next |-> Entity(get_id(next), get_gen(next) + 1), add_queue |-> << >>,
     sub_queue |-> << >>]

\* The Appendix rest leaves: both queues drained, `app.next = next`.
rest_app(next) == [next |-> next, add_queue |-> << >>, sub_queue |-> << >>]

\* generations.write().
rest_lock ==
    /\ fatal = "none"
    /\ drv.pc = "idle"
    /\ CanWrite(locks["gens"])
    /\ locks' = write_lock("gens", Driver)
    /\ drv' = [drv EXCEPT !.pc = "rest", !.killed = NoEnt, !.below = FALSE]
    /\ UNCHANGED << generations, storages, app, poolSize, jobs, wk, pulsed,
                    ndisp, fatal, issued, stamps, seen >>

\* appendix.write() with the table held, then both loops and app.next.
rest_body ==
    /\ fatal = "none"
    /\ drv.pc = "rest"
    /\ CanWrite(locks["app"])
    /\ LET a == rest_add(generations, app.add_queue)
           s == rest_sub(a.gens, app.next, app.sub_queue)
       IN IF ~a.ok
          THEN /\ fatal' = "rest: gen == 1 - gens[id]"
               /\ generations' = a.gens
               /\ UNCHANGED << app, locks, drv, stamps >>
          ELSE IF ~s.ok
          THEN /\ fatal' = "rest: gen == gens[id]"
               /\ generations' = s.gens
               /\ UNCHANGED << app, locks, drv, stamps >>
          ELSE /\ generations' = s.gens
               /\ app' = rest_app(s.next)
               /\ locks' = unlock(locks, "gens", Driver)
               /\ drv' = [drv EXCEPT !.pc = "rested",
                                     !.q = [next |-> app.next,
                                            add_queue |-> app.add_queue,
                                            sub_queue |-> app.sub_queue,
                                            gens |-> generations]]
               /\ stamps' = << >>
               /\ fatal' = fatal
    /\ UNCHANGED << storages, poolSize, jobs, wk, pulsed, ndisp, issued, seen >>

\* rest has returned.
rest_return ==
    /\ fatal = "none"
    /\ drv.pc = "rested"
    /\ drv' = [drv EXCEPT !.pc = "idle", !.q = NoApp]
    /\ UNCHANGED << generations, storages, app, locks, poolSize, jobs, wk,
                    pulsed, ndisp, fatal, issued, stamps, seen >>


\* ------------------------------------- Scheduler::run and the typed runs
\* The lists of component types of length up to n.
RECURSIVE lists_upto(_)
lists_upto(n) ==
    IF n = 0 THEN {<< >>}
    ELSE lists_upto(n - 1) \cup
         {Append(l, c) : l \in {x \in lists_upto(n - 1) : Len(x) = n - 1}, c \in Comps}

TypeLists == lists_upto(MaxArity)

\* The write and read types of a typed run (run0w1r, run1w1r, run2w0r, ...):
\* there is at least one type parameter, and nothing keeps the caller from
\* giving the same component type for two of them.
Range(s) == {s[i] : i \in DOMAIN s}
TypedShapes ==
    {sh \in [W : TypeLists, R : TypeLists] : Len(sh.W) + Len(sh.R) >= 1}

\* threads.execute(job), then signal.wait(): the job is queued for the pool
\* and the driver waits for the pulse of this run.
run(kind, W, R) ==
    /\ fatal = "none"
    /\ drv.pc = "idle"
    /\ ndisp < MaxDispatch
    /\ ndisp' = ndisp + 1
    /\ jobs' = Append(jobs, [kind |-> kind, W |-> W, R |-> R, id |-> ndisp + 1])
    /\ pulsed' = FALSE
    /\ drv' = [drv EXCEPT !.pc = "run",
                           !.runs = Append(@, IF kind = "typed"
                                              THEN [kind |-> kind, W |-> W, R |-> R]
                                              ELSE [kind |-> kind, W |-> << >>, R |-> << >>])]
    /\ UNCHANGED << generations, storages, app, locks, poolSize, wk, fatal,
                    issued, stamps, seen >>

\* One of the typed runs generated by impl_run.
run_typed(sh) == run("typed", sh.W, sh.R)

\* run with a body written by the caller: it fetches write locks on W, then
\* calls insert(), remove() and writes components of what it inserted.
run_raw(W) == run("raw", W, << >>)

\* signal.wait() returns once the pulse has fired.
run_return ==
    /\ fatal = "none"
    /\ drv.pc = "run"
    /\ pulsed
    /\ drv' = [drv EXCEPT !.pc = "idle"]
    /\ UNCHANGED << generations, storages, app, locks, poolSize, jobs, wk,
                    pulsed, ndisp, fatal, issued, stamps, seen >>

\* ------------------------------------------- World::read from the driver
\* read::<T>(): the driver sees the storage through the guard.
read(c) ==
    /\ fatal = "none"
    /\ drv.pc = "idle"
    /\ CanRead(locks[c])
    /\ locks' = read_lock(c, Driver)
    /\ drv' = [drv EXCEPT !.pc = "reading", !.comp = c]
    /\ seen' = storages[c]
    /\ UNCHANGED << generations, storages, app, poolSize, jobs, wk, pulsed,
                    ndisp, fatal, issued, stamps >>

\* entities() from the driver: generations.read(), index 0.
entities_call ==
    /\ fatal = "none"
    /\ drv.pc = "idle"
    /\ CanRead(locks["gens"])
    /\ locks' = read_lock("gens", Driver)
    /\ drv' = [drv EXCEPT !.pc = "iter", !.index = 0, !.out = << >>]
    /\ UNCHANGED << generations, storages, app, poolSize, jobs, wk, pulsed,
                    ndisp, fatal, issued, stamps, seen >>

\* One call of EntityIter::next by the driver's `for` loop.
iter_next ==
    /\ fatal = "none"
    /\ drv.pc = "iter"
    /\ LET r == EntityIter_next(generations, drv.index)
       IN drv' = [drv EXCEPT !.index = r.index,
                             !.out = IF r.ent = NoEnt THEN @ ELSE Append(@, r.ent),
                             !.pc = IF r.ent = NoEnt THEN "iter_end" ELSE "iter"]
    /\ UNCHANGED << generations, storages, app, locks, poolSize, jobs, wk,
                    pulsed, ndisp, fatal, issued, stamps, seen >>

\* The EntityIter and its guard dropped.
iter_drop ==
    /\ fatal = "none"
    /\ drv.pc = "iter_end"
    /\ locks' = unlock(locks, "gens", Driver)
    /\ drv' = [drv EXCEPT !.pc = "idle", !.index = 0, !.out = << >>]
    /\ UNCHANGED << generations, storages, app, poolSize, jobs, wk, pulsed,
                    ndisp, fatal, issued, stamps, seen >>

\* find_next(base) called on the World: generations.read(), the scan, and
\* the guard dropped on return.  index keeps base, ent the result.
find_next_call(base) ==
    /\ fatal = "none"
    /\ drv.pc = "idle"
    /\ CanRead(locks["gens"])
    /\ drv' = [drv EXCEPT !.pc = "found", !.index = base,
                          !.ent = find_next(generations, base)]
    /\ UNCHANGED << generations, storages, app, locks, poolSize, jobs, wk,
                    pulsed, ndisp, fatal, issued, stamps, seen >>

\* The caller done with find_next's result.
find_next_return ==
    /\ fatal = "none"
    /\ drv.pc = "found"
    /\ drv' = [drv EXCEPT !.pc = "idle", !.index = 0, !.ent = NoEnt]
    /\ UNCHANGED << generations, storages, app, locks, poolSize, jobs, wk,
                    pulsed, ndisp, fatal, issued, stamps, seen >>

\* The read guard dropped.
read_drop ==
    /\ fatal = "none"
    /\ drv.pc = "reading"
    /\ locks' = unlock(locks, drv.comp, Driver)
    /\ drv' = [drv EXCEPT !.pc = "idle", !.comp = ""]
    /\ seen' = EmptyStorage
    /\ UNCHANGED << generations, storages, app, poolSize, jobs, wk, pulsed,
                    ndisp, fatal, issued, stamps >>


\* ------------------------------------------------- the pool's workers
\* A take() that leaves the Pulse in the cell.
pulse_keep(cell) == [got |-> cell, left |-> cell]

\* `self.pulse.borrow_mut().take()`: what the caller gets, what the cell keeps.
pulse_take(cell) == [got |-> cell, left |-> "none"]

\* A worker of the pool takes the oldest job of the channel and calls it
\* (the idle workers are interchangeable: the lowest numbered one takes it);
\* the body's first call is fetch, which takes the Pulse out of the cell.
take(w) ==
    /\ fatal = "none"
    /\ w <= poolSize
    /\ wk[w].pc = "idle"
    /\ \A v \in Workers : v < w => wk[v].pc # "idle"
    /\ jobs # << >>
    /\ wk' = [wk EXCEPT ![w] = [IdleWorker EXCEPT !.pc = "fetch", !.job = Head(jobs),
                                                 !.cell = pulse_take("some").left,
                                                 !.fetches = 1, !.fcalls = 1]]
    /\ jobs' = Tail(jobs)
    /\ UNCHANGED << generations, storages, app, locks, poolSize, drv, pulsed,
                    ndisp, fatal, issued, stamps, seen >>

\* The guards the closure given to fetch takes, in order: write::<W>() for
\* every write type, read::<R>() for every read type, then entities().
lock_seq(names, mode) == [i \in DOMAIN names |-> [mode |-> mode, name |-> names[i]]]

fetch_locks(job) ==
    lock_seq(job.W, "write") \o lock_seq(job.R, "read")
        \o (IF job.kind = "typed" THEN << [mode |-> "read", name |-> "gens"] >>
            ELSE << >>)

\* The closure of fetch takes its next guard.
fetch_lock(w) ==
    /\ fatal = "none"
    /\ wk[w].pc = "fetch"
    /\ wk[w].k < Len(fetch_locks(wk[w].job))
    /\ LET l == fetch_locks(wk[w].job)[wk[w].k + 1]
       IN IF l.mode = "write"
          THEN CanWrite(locks[l.name]) /\ locks' = write_lock(l.name, w)
          ELSE CanRead(locks[l.name]) /\ locks' = read_lock(l.name, w)
    /\ wk' = [wk EXCEPT ![w].k = @ + 1]
    /\ UNCHANGED << generations, storages, app, poolSize, jobs, drv, pulsed,
                    ndisp, fatal, issued, stamps, seen >>

\* A fetch that pulses before its closure has taken the guards.
fetch_early(w) == wk[w].k >= 0

\* Whether fetch's closure f has returned, so that pulse.pulse() is next.
fetch_done(w) == wk[w].k = Len(fetch_locks(wk[w].job))

\* WorldArg::fetch after f: pulse.pulse(), and the body goes on.
fetch_pulse(w) ==
    /\ fatal = "none"
    /\ wk[w].pc = "fetch"
    /\ fetch_done(w)
    /\ pulsed' = TRUE
    /\ wk' = [wk EXCEPT ![w].pc = IF wk[w].job.kind = "typed" THEN "pass1" ELSE "raw",
                         ![w].fired = @ + 1,
                         ![w].pre = IF wk[w].job.kind = "typed" THEN storages ELSE << >>]
    /\ UNCHANGED << generations, storages, app, locks, poolSize, jobs, drv,
                    ndisp, fatal, issued, stamps, seen >>

\* A filter that lets through an entity with any one of the components.
matches_any(job, st, ent) ==
    \E c \in Range(job.W) \cup Range(job.R) : storage_get(st[c], ent) # None

\* The `if let (Some(..), ..)` of impl_run: every storage of the write and
\* read types holds a value for the entity.
matches(job, st, ent) ==
    \A c \in Range(job.W) \cup Range(job.R) : storage_get(st[c], ent) # None

\* The functor of the dispatch, `a.value += b.value` for every write type
\* a over the read types b (+= 1 when there is no read type).
RECURSIVE sum_reads(_, _, _)
sum_reads(R, st, ent) ==
    IF R = << >> THEN 0
    ELSE storage_get(st[Head(R)], ent) + sum_reads(Tail(R), st, ent)

functor(job, st, ent) ==
    LET d == IF job.R = << >> THEN 1 ELSE sum_reads(job.R, st, ent)
    IN [c \in Comps |->
          IF c \in Range(job.W)
          THEN storage_insert(st[c], ent, storage_get(st[c], ent) + d)
          ELSE st[c]]

\* One turn of impl_run's first loop, `for ent in entities`.
pass1(w) ==
    /\ fatal = "none"
    /\ wk[w].pc = "pass1"
    /\ LET r == EntityIter_next(generations, wk[w].index)
           hit == matches(wk[w].job, storages, r.ent)
       IN IF r.ent = NoEnt
          THEN /\ wk' = [wk EXCEPT ![w].pc = "pass1_end", ![w].index = r.index]
               /\ UNCHANGED storages
          ELSE /\ wk' = [wk EXCEPT ![w].index = r.index,
                                   ![w].log1 = IF hit THEN Append(@, r.ent) ELSE @]
               /\ storages' = IF hit THEN functor(wk[w].job, storages, r.ent)
                              ELSE storages
    /\ UNCHANGED << generations, app, locks, poolSize, jobs, drv, pulsed,
                    ndisp, fatal, issued, stamps, seen >>

\* The first loop is over: the EntityIter and its read guard are dropped.
pass1_drop(w) ==
    /\ fatal = "none"
    /\ wk[w].pc = "pass1_end"
    /\ locks' = unlock(locks, "gens", w)
    /\ wk' = [wk EXCEPT ![w].pc = "new_entities", ![w].index = 0]
    /\ UNCHANGED << generations, storages, app, poolSize, jobs, drv, pulsed,
                    ndisp, fatal, issued, stamps, seen >>

\* WorldArg::new_entities: app.read().
new_entities(w) ==
    /\ fatal = "none"
    /\ wk[w].pc = "new_entities"
    /\ CanRead(locks["app"])
    /\ locks' = read_lock("app", w)
    /\ wk' = [wk EXCEPT ![w].pc = "pass2"]
    /\ UNCHANGED << generations, storages, app, poolSize, jobs, drv, pulsed,
                    ndisp, fatal, issued, stamps, seen >>

\* One turn of impl_run's second loop, `for ent in warg.new_entities()`.
pass2(w) ==
    /\ fatal = "none"
    /\ wk[w].pc = "pass2"
    /\ LET r == NewEntityIter_next(app.add_queue, wk[w].index)
           hit == matches(wk[w].job, storages, r.ent)
       IN IF r.ent = NoEnt
          THEN /\ wk' = [wk EXCEPT ![w].pc = "pass2_end", ![w].index = r.index]
               /\ UNCHANGED storages
          ELSE /\ wk' = [wk EXCEPT ![w].index = r.index,
                                   ![w].log2 = IF hit THEN Append(@, r.ent) ELSE @]
               /\ storages' = IF hit THEN functor(wk[w].job, storages, r.ent)
                              ELSE storages
    /\ UNCHANGED << generations, app, locks, poolSize, jobs, drv, pulsed,
                    ndisp, fatal, issued, stamps, seen >>

\* A body whose guards outlive it.
unlock_none(t) == [l \in LockNames |-> locks[l]]

\* The locks with every guard of thread t dropped.
unlock_all(t) ==
    [l \in LockNames |->
        [w |-> IF locks[l].w = t THEN NoThread ELSE locks[l].w,
         r |-> locks[l].r \ {t}]]

\* The typed body returns: the NewEntityIter and the storage guards dropped.
body_end(w) ==
    /\ fatal = "none"
    /\ wk[w].pc = "pass2_end"
    /\ locks' = unlock_all(w)
    /\ wk' = [wk EXCEPT ![w] = IdleWorker]
    /\ UNCHANGED << generations, storages, app, poolSize, jobs, drv, pulsed,
                    ndisp, fatal, issued, stamps, seen >>


\* --------------------------------- a body written against WorldArg itself
\* WorldArg::insert: app.write().
insert_lock(w) ==
    /\ fatal = "none"
    /\ wk[w].pc = "raw"
    /\ wk[w].ops < MaxBodyOps
    /\ CanWrite(locks["app"])
    /\ Len(app.add_queue) < MaxQueue
    /\ get_gen(app.next) <= MaxGen
    /\ get_id(app.next) < MaxIndex
    /\ locks' = write_lock("app", w)
    /\ wk' = [wk EXCEPT ![w].pc = "insert"]
    /\ UNCHANGED << generations, storages, app, poolSize, jobs, drv, pulsed,
                    ndisp, fatal, issued, stamps, seen >>

\* The Appendix after insert has queued next and predicted the one after.
insert_app(a, gens) ==
    [a EXCEPT !.add_queue = Append(@, a.next),
              !.next = find_next(gens, get_id(a.next) + 1)]

\* The rest of insert: the push, find_next under the table's read lock.
insert(w) ==
    /\ fatal = "none"
    /\ wk[w].pc = "insert"
    /\ CanRead(locks["gens"])
    /\ app' = insert_app(app, generations)
    /\ locks' = unlock(locks, "app", w)
    /\ wk' = [wk EXCEPT ![w].pc = "raw", ![w].ent = app.next, ![w].ops = @ + 1]
    /\ drv' = [drv EXCEPT !.killed = NoEnt, !.below = FALSE]
    /\ stamps' = Append(stamps, ndisp)
    /\ UNCHANGED << generations, storages, poolSize, jobs, pulsed, ndisp,
                    fatal, issued, seen >>

\* The body attaches a component to the entity it inserted, through a write
\* guard it fetched.
attach(w, c, v) ==
    /\ fatal = "none"
    /\ wk[w].pc = "raw"
    /\ wk[w].ops < MaxBodyOps
    /\ wk[w].ent # NoEnt
    /\ c \in Range(wk[w].job.W)
    /\ storages' = [storages EXCEPT ![c] = storage_insert(@, wk[w].ent, v)]
    /\ wk' = [wk EXCEPT ![w].ops = @ + 1]
    /\ UNCHANGED << generations, app, locks, poolSize, jobs, drv, pulsed,
                    ndisp, fatal, issued, stamps, seen >>

\* WorldArg::remove: app.write(), sub_queue.push(entity).
remove(w, e) ==
    /\ fatal = "none"
    /\ wk[w].pc = "raw"
    /\ wk[w].ops < MaxBodyOps
    /\ CanWrite(locks["app"])
    /\ Len(app.sub_queue) < MaxQueue
    /\ app' = [app EXCEPT !.sub_queue = Append(@, e)]
    /\ wk' = [wk EXCEPT ![w].ops = @ + 1]
    /\ UNCHANGED << generations, storages, locks, poolSize, jobs, drv, pulsed,
                    ndisp, fatal, issued, stamps, seen >>

\* The body calls fetch once more: take() on the cell, `expect`, and, were
\* there a Pulse, the closure (which takes no new guard here) and the pulse.
fetch_again(w) ==
    /\ fatal = "none"
    /\ wk[w].pc = "raw"
    /\ wk[w].ops < MaxBodyOps
    /\ LET t == pulse_take(wk[w].cell)
       IN IF t.got = "none"
          THEN /\ fatal' = "fetch may only be called once."
               /\ wk' = [wk EXCEPT ![w].fetches = @ + 1, ![w].ops = @ + 1]
               /\ UNCHANGED pulsed
          ELSE /\ fatal' = fatal
               /\ wk' = [wk EXCEPT ![w].fetches = @ + 1, ![w].ops = @ + 1,
                                    ![w].cell = t.left, ![w].fcalls = @ + 1,
                                    ![w].fired = @ + 1]
               /\ pulsed' = TRUE
    /\ UNCHANGED << generations, storages, app, locks, poolSize, jobs, drv,
                    ndisp, issued, stamps, seen >>

\* The body returns and its guards are dropped.
raw_end(w) ==
    /\ fatal = "none"
    /\ wk[w].pc = "raw"
    /\ locks' = unlock_all(w)
    /\ wk' = [wk EXCEPT ![w] = IdleWorker]
    /\ UNCHANGED << generations, storages, app, poolSize, jobs, drv, pulsed,
                    ndisp, fatal, issued, stamps, seen >>

\* ------------------------------------------------------ specifications
\* The raw bodies fetch write guards on at most one storage.
RawLists == lists_upto(1)

\* The handles a body holds: those entities() yields and the one insert()
\* returned to it.
body_handles(w) == (Range(entities(generations)) \cup {wk[w].ent}) \ {NoEnt}

\* The value the callers attach to a component of type c.
value_of(c) == IF c = "A" THEN 1 ELSE MaxVal

\* The driver's calls that create and kill entities.
Lifecycle ==
    \/ add_entity_lock
    \/ add_entity_body
    \/ \E c \in Comps : with(c, value_of(c))
    \/ build
    \/ \E e \in Handles : del_entity_call(e)
    \/ \E c \in Comps : del_slice(c)
    \/ del_entity_gens
    \/ del_entity_app

\* rest.
Quiescence ==
    \/ rest_lock
    \/ rest_body
    \/ rest_return

\* A pool thread takes a job and runs it up to the pulse of fetch.
Fetch(w) ==
    \/ take(w)
    \/ fetch_lock(w)
    \/ fetch_pulse(w)

\* The body of a typed run after fetch.
TypedBody(w) ==
    \/ pass1(w)
    \/ pass1_drop(w)
    \/ new_entities(w)
    \/ pass2(w)
    \/ body_end(w)

\* A body that inserts and removes entities, after fetch.
RawBody(w) ==
    \/ insert_lock(w)
    \/ insert(w)
    \/ \E c \in Comps : attach(w, c, value_of(c))
    \/ \E e \in body_handles(w) : remove(w, e)
    \/ raw_end(w)

\* A worker running typed runs only.
TypedWorker(w) == Fetch(w) \/ TypedBody(w)

\* Spec: the entity lifecycle. The driver creates and kills entities, runs
\* bodies that insert and remove entities, and calls rest, in any order and
\* while a body is still running. A panic of the driver ends the program.
Next ==
    \/ Lifecycle
    \/ Quiescence
    \/ \E W \in RawLists : ndisp < MaxRaw /\ run_raw(W)
    \/ run_return
    \/ \E w \in Workers : Fetch(w)
    \/ \E w \in Workers : RawBody(w)

Spec == Init /\ [][Next]_vars

\* SpecRun: the dispatches. The driver sets the world up, then runs typed
\* systems and inserting bodies on the pool and reads the storages.
Setup ==
    \/ (ndisp = 0 /\ add_entity_lock)
    \/ add_entity_body
    \/ \E c \in Comps : with(c, value_of(c))
    \/ build
    \/ \E e \in Range(entities(generations)) : ndisp = 0 /\ del_entity_call(e)
    \/ \E c \in Comps : del_slice(c)
    \/ del_entity_gens
    \/ del_entity_app

Dispatch ==
    \/ \E sh \in TypedShapes : run_typed(sh)
    \/ \E W \in RawLists : ndisp < MaxRaw /\ run_raw(W)
    \/ run_return
    \/ \E c \in Comps : ndisp > 0 /\ read(c)
    \/ read_drop

NextRun ==
    \/ Setup
    \/ Dispatch
    \/ \E w \in Workers : Fetch(w)
    \/ \E w \in Workers : TypedBody(w)
    \/ \E w \in Workers : RawBody(w)

SpecRun == Init /\ [][NextRun]_vars


\* SpecFair: typed runs over a world the driver has populated, under fair
\* scheduling: a pool thread that can take a job or go on with its body
\* eventually does, and so does the driver when the pulse wakes it.
Populate ==
    \/ (ndisp = 0 /\ add_entity_lock)
    \/ add_entity_body
    \/ \E c \in Comps : with(c, value_of(c))
    \/ build

NextFair ==
    \/ Populate
    \/ \E sh \in TypedShapes : run_typed(sh)
    \/ run_return
    \/ \E w \in Workers : TypedWorker(w)

SpecFair ==
    /\ Init
    /\ [][NextFair]_vars
    /\ WF_vars(run_return)
    /\ \A w \in Workers : WF_vars(TypedWorker(w))

\* SpecIter: one pass of entities() over any generation table.
Tables == UNION {[1..n -> (-MaxGen)..MaxGen] : n \in 0..MaxLen}

InitIter ==
    /\ generations \in Tables
    /\ storages = [c \in Comps |-> EmptyStorage]
    /\ app = [next |-> find_next(generations, 0), add_queue |-> << >>,
              sub_queue |-> << >>]
    /\ locks = [l \in LockNames |-> Unlocked]
    /\ poolSize = 1
    /\ jobs = << >>
    /\ wk = [w \in Workers |-> IdleWorker]
    /\ drv = IdleDriver
    /\ pulsed = FALSE
    /\ ndisp = 0
    /\ fatal = "none"
    /\ issued = [i \in 0..(MaxIndex - 1) |-> 0]
    /\ stamps = << >>
    /\ seen = EmptyStorage

NextIter == entities_call \/ iter_next \/ iter_drop

SpecIter == InitIter /\ [][NextIter]_vars

\* SpecFind: find_next from any base over any generation table, bases past
\* the table's end included.
Bases == 0..(MaxLen + 1)

NextFind == (\E base \in Bases : find_next_call(base)) \/ find_next_return

SpecFind == InitIter /\ [][NextFind]_vars

\* No dispatch is in flight: no job waits and every worker is idle.
NoDispatch == jobs = << >> /\ \A w \in Workers : wk[w].pc = "idle"

\* SpecQuiet: the entity lifecycle as in Spec, with rest called only while
\* no dispatch is in flight.
QuietRest ==
    \/ (NoDispatch /\ rest_lock)
    \/ rest_body
    \/ rest_return

NextQuiet ==
    \/ Lifecycle
    \/ QuietRest
    \/ \E W \in RawLists : ndisp < MaxRaw /\ run_raw(W)
    \/ run_return
    \/ \E w \in Workers : Fetch(w)
    \/ \E w \in Workers : RawBody(w)

SpecQuiet == Init /\ [][NextQuiet]_vars

\* SpecPass: typed runs over worlds that the whole API has shaped.  The
\* driver creates and kills entities and calls rest while no dispatch is in
\* flight, and runs inserting bodies and typed systems on the pool.
Serial ==
    \/ (NoDispatch /\ add_entity_lock)
    \/ add_entity_body
    \/ \E c \in Comps : with(c, value_of(c))
    \/ build
    \/ \E e \in Range(entities(generations)) : NoDispatch /\ del_entity_call(e)
    \/ \E c \in Comps : del_slice(c)
    \/ del_entity_gens
    \/ del_entity_app

NextPass ==
    \/ Serial
    \/ QuietRest
    \/ \E sh \in TypedShapes : run_typed(sh)
    \/ \E W \in RawLists : ndisp < MaxRaw /\ run_raw(W)
    \/ run_return
    \/ \E w \in Workers : Fetch(w)
    \/ \E w \in Workers : TypedBody(w)
    \/ \E w \in Workers : RawBody(w)

SpecPass == Init /\ [][NextPass]_vars

\* SpecFetch: bodies written by the caller, which may call fetch again.
NextFetch ==
    \/ \E W \in RawLists : run_raw(W)
    \/ run_return
    \/ \E w \in Workers : Fetch(w)
    \/ \E w \in Workers : RawBody(w)
    \/ \E w \in Workers : fetch_again(w)

SpecFetch == Init /\ [][NextFetch]_vars

\* SpecLife: the driver alone, creating and killing entities.
NextLife == Lifecycle

SpecLife == Init /\ [][NextLife]_vars

\* ----------------------------------------------------------------- claims
\* Slot i of a table, 0 when the table has no such slot.
slot(gens, i) == IF i < Len(gens) THEN gens[i + 1] ELSE 0

\* C1: the generations add_entity issues for one index strictly increase:
\* the entity add_entity returns has a generation greater than every
\* generation add_entity returned before for that index, so no entity is
\* returned twice.
C1_GenerationsIncrease ==
    drv.pc = "builder" => get_gen(drv.ent) > drv.prior

\* C2: right after add_entity has returned e, the table holds e's
\* generation at e's index, it is positive, and entities() yields e.
C2_AliveAfterAdd ==
    drv.pc = "builder" =>
        /\ slot(generations, get_id(drv.ent)) = get_gen(drv.ent)
        /\ get_gen(drv.ent) > 0
        /\ drv.ent \in Range(entities(generations))

\* C3: with no dispatch in flight, no storage holds a value for an index
\* whose generation in the table is <= 0; in particular not right after rest
\* has committed a queued removal.
C3_DataOnlyForAlive ==
    NoDispatch =>
        \A c \in Comps, i \in 0..(MaxIndex - 1) :
            (i < Len(generations) /\ generations[i + 1] <= 0)
                => storages[c][i] = None


freed_below(q) == {e \in Range(q.sub_queue) : get_id(e) < get_id(q.next)}

\* What rest leaves, but for the insertions. q and gens are the Appendix and
\* the table rest found, a and g those it leaves: the queues are empty,
\* every queued removal is dead with its generation negated and had the
\* table's generation when its turn came, and next is the lowest freed index
\* that precedes it, with the generation after the freed one (else unchanged).
rest_post(q, gens, a, g) ==
    /\ a.add_queue = << >>
    /\ a.sub_queue = << >>
    /\ \A e \in Range(q.sub_queue) :
          /\ slot(g, get_id(e)) = -get_gen(e)
          /\ \/ e \in Range(q.add_queue)
             \/ /\ slot(gens, get_id(e)) = get_gen(e)
                /\ \A x \in Range(q.add_queue) : get_id(x) # get_id(e)
    /\ IF freed_below(q) = {} THEN a.next = q.next
       ELSE \E e \in freed_below(q) :
               /\ \A f \in freed_below(q) : get_id(e) <= get_id(f)
               /\ a.next = Entity(get_id(e), get_gen(e) + 1)

\* The step in which rest returns.
rest_returns == drv.pc = "rest" /\ drv'.pc = "rested"

\* C10 as stated: when rest returns, every queued insertion is alive with
\* its generation in the table, and rest_post holds.
C10_Original ==
    [][rest_returns =>
        /\ \A e \in Range(app.add_queue) :
              slot(generations', get_id(e)) = get_gen(e)
        /\ rest_post(app, generations, app', generations')]_vars

\* C10 amended: when rest returns, every queued insertion that was not also
\* queued for removal is alive with its generation in the table, and
\* rest_post holds.
C10_RestPost ==
    [][rest_returns =>
        /\ \A e \in Range(app.add_queue) :
              e \notin Range(app.sub_queue)
                  => slot(generations', get_id(e)) = get_gen(e)
        /\ rest_post(app, generations, app', generations')]_vars

\* rest has returned after committing an insertion and a removal that
\* lowered next.
C10_Witness ==
    /\ drv.pc = "rested"
    /\ drv.q.add_queue # << >>
    /\ drv.q.sub_queue # << >>
    /\ \E e \in Range(drv.q.sub_queue) : get_id(e) < get_id(drv.q.next)


\* The live entities of a table by ascending index: Entity(i, table[i]) for
\* the slots with a positive generation.
alive_seq(gens) ==
    SelectSeq([i \in 1..Len(gens) |-> Entity(i - 1, gens[i])],
              LAMBDA e : get_gen(e) > 0)

\* Entity e has a value in the storage of every write and read type of job.
has_all(job, e) ==
    \A c \in Range(job.W) \cup Range(job.R) : storages[c][get_id(e)] # None

\* The entries of add_queue that were queued once dispatch n had been called.
queued_since(n) ==
    LET at == SelectSeq([i \in 1..Len(stamps) |-> i], LAMBDA i : stamps[i] >= n)
    IN [k \in 1..Len(at) |-> app.add_queue[at[k]]]

\* The first loop of a typed body, when it ends, has called the functor for
\* exactly the live entities of the table that have every component, by
\* ascending index.
first_loop(w) ==
    wk[w].pc = "pass1_end" =>
        wk[w].log1 = SelectSeq(alive_seq(generations),
                               LAMBDA e : has_all(wk[w].job, e))

\* The storages of the write types are as the body found them at every
\* index the functor was not called for.
skipped_silently(w) ==
    wk[w].pc = "pass2_end" =>
        \A c \in Range(wk[w].job.W), i \in 0..(MaxIndex - 1) :
            (\A e \in Range(wk[w].log1) \cup Range(wk[w].log2) : get_id(e) # i)
                => storages[c][i] = wk[w].pre[c][i]

\* C4 as stated: a typed body calls the functor for the live entities of
\* the table that have every component of W and R, by ascending index, then
\* for the entities inserted during the same dispatch that have them all;
\* the others are skipped.
C4_Original ==
    \A w \in Workers :
        /\ first_loop(w)
        /\ skipped_silently(w)
        /\ wk[w].pc = "pass2_end" =>
              wk[w].log2 = SelectSeq(queued_since(wk[w].job.id),
                                     LAMBDA e : has_all(wk[w].job, e))

\* C4 amended: the same, where the second loop goes through every entity of
\* add_queue, in queue order: those inserted since the last rest, by this
\* dispatch or by an earlier one.
C4_Visits ==
    \A w \in Workers :
        /\ first_loop(w)
        /\ skipped_silently(w)
        /\ wk[w].pc = "pass2_end" =>
              wk[w].log2 = SelectSeq(app.add_queue,
                                     LAMBDA e : has_all(wk[w].job, e))

\* A typed body has ended after calling the functor in both loops.
C4_Witness ==
    \E w \in Workers :
        /\ wk[w].pc = "pass2_end"
        /\ wk[w].log1 # << >>
        /\ wk[w].log2 # << >>


\* Worker w runs a body.
busy(w) == wk[w].pc # "idle"

\* Every guard of fetch's closure is taken by worker w's body.
fetched(w) == wk[w].k = Len(fetch_locks(wk[w].job))

\* The body of worker w has a lock still to take: a guard of its fetch, or
\* the Appendix's read lock of its second loop.
lock_ahead(w) ==
    \/ ~fetched(w)
    \/ wk[w].pc \in {"pass1", "pass1_end", "new_entities"}

\* run returns only once the closure of fetch has returned in the body it
\* queued, and the pulse fires before the body's loops and calls begin;
\* of two bodies, the one dispatched later holds no guard of its fetch
\* until the earlier one holds all of its own.
fetch_order ==
    /\ drv.pc # "run" =>
          /\ jobs = << >>
          /\ \A w \in Workers : busy(w) => fetched(w) /\ wk[w].pc # "fetch"
    /\ \A w \in Workers :
          (busy(w) /\ wk[w].job.id = ndisp /\ ~pulsed) =>
              /\ wk[w].pc = "fetch"
              /\ wk[w].log1 = << >> /\ wk[w].log2 = << >> /\ wk[w].ops = 0
    /\ \A w \in Workers : (busy(w) /\ wk[w].pc # "fetch") => fetched(w)
    /\ \A w1, w2 \in Workers :
          (busy(w1) /\ busy(w2) /\ wk[w1].job.id < wk[w2].job.id /\ wk[w2].k > 0)
              => fetched(w1)
    /\ \A w \in Workers, i \in DOMAIN jobs : busy(w) => wk[w].job.id < jobs[i].id

\* C5 as stated: fetch_order, and every lock acquisition of the earlier of
\* two dispatches precedes any lock acquisition of the later one.
C5_Original ==
    /\ fetch_order
    /\ \A w1, w2 \in Workers :
          (busy(w1) /\ busy(w2) /\ wk[w1].job.id < wk[w2].job.id /\ wk[w2].k > 0)
              => ~lock_ahead(w1)

\* C5 amended: fetch_order, where the locks ordered between two dispatches
\* are those of fetch (the storages' and the table's); the Appendix's lock,
\* which a body takes after fetch, is not among them.
C5_FetchOrder == fetch_order

\* Two bodies run at once, each holding the guards of its fetch, and the
\* driver has returned from both runs.
C5_Witness ==
    /\ drv.pc = "idle"
    /\ \E w1, w2 \in Workers :
          /\ wk[w1].job.id = 1 /\ wk[w2].job.id = 2
          /\ wk[w1].k > 0 /\ wk[w2].k > 0
          /\ fetched(w1) /\ fetched(w2)
          /\ wk[w1].pc # "fetch" /\ wk[w2].pc # "fetch"


\* The storages as the driver set them up: every component that is there
\* has the value `with` gave it (the functor changes values, never which
\* components an entity has).
as_built ==
    [c \in Comps |->
        [i \in 0..(MaxIndex - 1) |->
            IF storages[c][i] # None THEN value_of(c) ELSE None]]

\* The storages once the functor of job has been called for every one of
\* ents that has all the components.
RECURSIVE apply_all(_, _, _)
apply_all(job, st, ents) ==
    IF ents = << >> THEN st
    ELSE apply_all(job,
                   IF \A c \in Range(job.W) \cup Range(job.R) :
                          st[c][get_id(Head(ents))] # None
                   THEN functor(job, st, Head(ents)) ELSE st,
                   Tail(ents))

\* The storages once the bodies of runs have run to their end, one after
\* the other, over the live entities of the table.
RECURSIVE replay(_, _)
replay(runs, st) ==
    IF runs = << >> THEN st
    ELSE replay(Tail(runs), apply_all(Head(runs), st, alive_seq(generations)))

\* A dispatch that writes storage c has been called and its body has not
\* ended.
writer_in_flight(c) ==
    \/ \E i \in DOMAIN jobs : c \in Range(jobs[i].W)
    \/ \E w \in Workers : busy(w) /\ c \in Range(wk[w].job.W)

\* C6: while the driver reads storage c after its runs have returned, no
\* body that writes c is still running, and, the runs being typed ones, the
\* driver sees for every entity the value the functors of all the runs
\* called so far produce, never a value from before or from halfway.
C6_ReadsWholeUpdate ==
    drv.pc = "reading" =>
        /\ ~writer_in_flight(drv.comp)
        /\ (\A i \in DOMAIN drv.runs : drv.runs[i].kind = "typed")
              => seen = replay(drv.runs, as_built)[drv.comp]

\* e0 was built with A = 1 and B = 2, a run that writes A and reads B has
\* returned, and the driver reads A = 3 for e0.
C6_Witness ==
    /\ drv.pc = "reading"
    /\ drv.comp = "A"
    /\ drv.runs = << [kind |-> "typed", W |-> << "A" >>, R |-> << "B" >>] >>
    /\ as_built["A"][0] = 1
    /\ as_built["B"][0] = MaxVal
    /\ seen[0] = 1 + MaxVal


\* The type parameters of a run are pairwise distinct.
Distinct(s) == \A i, j \in DOMAIN s : i # j => s[i] # s[j]
distinct_types(job) == Distinct(job.W \o job.R)

\* The run the driver is in.
current_run == drv.runs[Len(drv.runs)]

\* C7 as stated: under fair scheduling every typed run returns to the
\* driver, and every body ends and drops its guards, whatever types the
\* runs write and read.
C7_Original ==
    /\ (drv.pc = "run") ~> (drv.pc # "run")
    /\ \A w \in Workers : busy(w) ~> ~busy(w)

\* C7 amended: the same, for the runs whose type parameters are pairwise
\* distinct (the write and read sets of different runs overlapping in any
\* way).
C7_NoDeadlock ==
    /\ (drv.pc = "run" /\ distinct_types(current_run)) ~> (drv.pc # "run")
    /\ \A w \in Workers :
          (busy(w) /\ distinct_types(wk[w].job))
              ~> (~busy(w) /\ \A l \in LockNames : locks[l].w # w /\ w \notin locks[l].r)

\* The second of two runs waits in fetch for a storage the first one's
\* body holds, while the driver waits for the second run's pulse.
C7_Witness ==
    /\ drv.pc = "run"
    /\ \E w1, w2 \in Workers :
          /\ wk[w1].job.id = 1 /\ wk[w2].job.id = 2
          /\ distinct_types(wk[w1].job) /\ distinct_types(wk[w2].job)
          /\ wk[w2].pc = "fetch"
          /\ ~fetched(w2)
          /\ ~ENABLED fetch_lock(w2)


\* C8: one pass of entities() over a table yields entities by strictly
\* ascending index, each with the positive generation the table holds at
\* its index, and yields every slot whose generation is positive: exactly
\* the live entities, each once, none with a generation <= 0.
C8_EntitiesLive ==
    drv.pc = "iter_end" =>
        /\ \A i, j \in DOMAIN drv.out :
              i < j => get_id(drv.out[i]) < get_id(drv.out[j])
        /\ \A i \in DOMAIN drv.out :
              /\ get_id(drv.out[i]) < Len(generations)
              /\ generations[get_id(drv.out[i]) + 1] = get_gen(drv.out[i])
              /\ get_gen(drv.out[i]) > 0
        /\ \A i \in 1..Len(generations) :
              generations[i] > 0 =>
                  \E j \in DOMAIN drv.out : drv.out[j] = Entity(i - 1, generations[i])
        /\ drv.out = entities(generations)

\* A pass has ended over a table of three slots or more that has a slot of
\* negative generation, a slot of generation 0 and a live one.
C8_Witness ==
    /\ drv.pc = "iter_end"
    /\ Len(generations) >= 3
    /\ \E i \in 1..Len(generations) : generations[i] < 0
    /\ \E i \in 1..Len(generations) : generations[i] = 0
    /\ Len(drv.out) >= 1


\* The table and the Appendix one more rest would leave, called on table
\* gens and Appendix a with nothing else in between.
rest_again(gens, a) ==
    LET x == rest_add(gens, a.add_queue)
        y == rest_sub(x.gens, a.next, a.sub_queue)
    IN [ok |-> x.ok /\ y.ok, gens |-> y.gens, app |-> rest_app(y.next)]

\* C11: a rest that finds both queues empty changes nothing (table, next,
\* queues, storages); and a rest called right after a rest, nothing queued
\* in between, finds them empty and leaves the state the first one left.
C11_RestIdempotent ==
    [][rest_returns =>
        /\ (app.add_queue = << >> /\ app.sub_queue = << >>) =>
              /\ generations' = generations
              /\ app' = app
              /\ storages' = storages
        /\ app'.add_queue = << >> /\ app'.sub_queue = << >>
        /\ rest_again(generations', app') =
              [ok |-> TRUE, gens |-> generations', app |-> app']]_vars

\* rest has returned from a call that found both queues empty, over a
\* table with a live and a dead slot, next predicting the dead one.
C11_Witness ==
    /\ drv.pc = "rested"
    /\ drv.q.add_queue = << >>
    /\ drv.q.sub_queue = << >>
    /\ \E i \in 1..Len(generations) : generations[i] > 0
    /\ \E i \in 1..Len(generations) :
          generations[i] < 0 /\ get_id(app.next) = i - 1


\* C12: in one dispatch the Pulse is taken and fired once: the first fetch
\* takes it, runs its closure and fires it; a second fetch is fatal, runs no
\* closure and fires nothing.
C12_FetchOnce ==
    \A w \in Workers :
        /\ wk[w].fired <= 1
        /\ wk[w].fcalls <= 1
        /\ busy(w) => wk[w].fcalls = 1 /\ wk[w].cell = "none"
        /\ (busy(w) /\ wk[w].pc # "fetch") <=> wk[w].fired = 1
        /\ wk[w].fired = 1 => fetched(w)
        /\ wk[w].fetches >= 2 =>
              /\ fatal = "fetch may only be called once."
              /\ wk[w].fetches = 2

\* A body has called fetch a second time, after its first fetch had run the
\* closure and fired the pulse, and the driver had returned from run.
C12_Witness ==
    /\ fatal = "fetch may only be called once."
    /\ drv.pc = "idle"
    /\ \E w \in Workers :
          wk[w].fetches = 2 /\ wk[w].fcalls = 1 /\ wk[w].fired = 1


\* C13: whenever add_entity has taken a predicted next of generation 1, the
\* table's length equals that entity's index, so its assertion never fails
\* (rest being called only with no dispatch in flight).
C13_NoGaps ==
    /\ (drv.pc = "add_entity" /\ get_gen(app.next) = 1)
          => Len(generations) = get_id(app.next)
    /\ fatal # "add_entity: gens.len() == id"


\* del_entity, its storages visited, checks the slot of its argument.
del_entity_checks ==
    /\ drv.pc = "del_slice"
    /\ drv.todo = {}
    /\ (drv'.pc # drv.pc \/ fatal' # fatal)

\* Handle e is dead or unknown to the table: its index is beyond the table,
\* its slot is dead, or its slot holds a later generation than the handle's.
dead_handle(e) ==
    \/ slot(generations, get_id(e)) <= 0
    \/ get_gen(e) < slot(generations, get_id(e))

\* C14: del_entity(e) is fatal for every handle e that is dead or was never
\* allocated (index beyond the table, slot dead, or stale handle of an
\* earlier occupant of a slot that holds another positive generation now),
\* and then leaves the table as it is.
C14_DeadHandleFatal ==
    [][(del_entity_checks /\ dead_handle(drv.ent))
          => (fatal' # "none" /\ generations' = generations
                /\ drv'.pc = "del_slice")]_vars

\* The free slots of table gens at or after base.
free_from(gens, base) ==
    {i \in 0..(Len(gens) - 1) : i >= base /\ gens[i + 1] <= 0}

\* The step in which find_next returns.
find_next_returns == drv.pc = "idle" /\ drv'.pc = "found"

\* C15: find_next(base) returns Entity(i, 1 - table[i]) for the smallest
\* index i >= base with table[i] <= 0, and Entity(length, 1) when there is
\* no such index (also when base exceeds the length); the table is not
\* modified.
C15_FindNext ==
    [][find_next_returns =>
         /\ generations' = generations
         /\ LET free == free_from(generations, drv'.index)
            IN IF free = {}
               THEN drv'.ent = Entity(Len(generations), 1)
               ELSE \E i \in free :
                      /\ \A j \in free : i <= j
                      /\ drv'.ent = Entity(i, 1 - generations[i + 1])]_vars

\* find_next has skipped a live slot and returned a dead slot inside the
\* table, with the generation after the dead one's.
C15_Witness ==
    /\ drv.pc = "found"
    /\ drv.index < get_id(drv.ent)
    /\ get_id(drv.ent) < Len(generations)
    /\ generations[get_id(drv.ent) + 1] < 0
    /\ get_gen(drv.ent) = 1 - generations[get_id(drv.ent) + 1]

\* A step of the driver inside del_entity before the table is touched, and
\* the step in which del_entity flips the slot and returns.
del_entity_before == drv.pc = "del_slice" /\ drv' # drv
del_entity_flips == drv.pc = "del_entity" /\ drv'.pc = "idle"

\* C16: del_entity(e) on a live e with table[e.index] = g > 0 sets that slot
\* to -g and leaves every other slot and the length as they are; next
\* becomes Entity(e.index, g + 1) if e.index is less than next's index and
\* stays otherwise; add_queue and sub_queue stay.  The steps of del_entity
\* before the flip change neither the table nor the Appendix.
C16_DelEntityEffect ==
    [][/\ del_entity_before => (generations' = generations /\ app' = app)
       /\ (del_entity_flips
             /\ slot(generations, get_id(drv.ent)) = get_gen(drv.ent))
          => LET id == get_id(drv.ent)
                 g == get_gen(drv.ent)
             IN /\ Len(generations') = Len(generations)
                /\ generations'[id + 1] = 0 - g
                /\ \A i \in 1..Len(generations) :
                      i # id + 1 => generations'[i] = generations[i]
                /\ app'.next = IF id < get_id(app.next)
                               THEN Entity(id, g + 1) ELSE app.next
                /\ app'.add_queue = app.add_queue
                /\ app'.sub_queue = app.sub_queue]_vars

\* del_entity has killed a live entity whose index does not precede next's:
\* the slot is flipped and next stands at a freed slot before it.
C16_Witness ==
    /\ drv.pc = "idle"
    /\ drv.killed # NoEnt
    /\ ~drv.below
    /\ get_id(app.next) < get_id(drv.killed)
    /\ generations[get_id(drv.killed) + 1] = 0 - get_gen(drv.killed)

\* The step in which a worker's insert() returns, a step in which remove()
\* returns, and the steps of the driver that may write the table.
insert_returns ==
    \E w \in Workers : wk[w].pc = "insert" /\ wk'[w].pc = "raw"
remove_returns == Len(app'.sub_queue) > Len(app.sub_queue)
table_writer ==
    /\ drv.pc \in {"add_entity", "del_entity", "rest"}
    /\ (drv'.pc # drv.pc \/ fatal' # fatal)

\* C17: insert() and remove(e) change neither the generation table nor any
\* component storage; the table changes only in add_entity, del_entity and
\* rest; until the next rest, entities() yields no entity that insert()
\* created (the entities of add_queue) and a remove() does not change what
\* entities() yields.
C17_Deferred ==
    [][/\ (insert_returns \/ remove_returns)
            => /\ generations' = generations
               /\ storages' = storages
               /\ entities(generations') = entities(generations)
       /\ generations' # generations => table_writer
       /\ \A i \in 1..Len(app'.add_queue) :
             app'.add_queue[i] \notin Range(entities(generations'))]_vars

\* C18: the entities insert() has returned since the latest rest (add_queue)
\* are pairwise distinct, and none of them is a live entity of the table,
\* which is where an entity that add_entity returned stands.
C18_DistinctInserts ==
    /\ \A i, j \in 1..Len(app.add_queue) :
          i # j => app.add_queue[i] # app.add_queue[j]
    /\ \A i \in 1..Len(app.add_queue) :
          slot(generations, get_id(app.add_queue[i]))
              # get_gen(app.add_queue[i])

\* Thread t holds a guard of lock l.
holds(t, l) == locks[l].w = t \/ t \in locks[l].r

\* The driver is inside add_entity or del_entity, holds one of the two locks
\* and waits for the other, of which worker w holds a guard.
driver_waits_for(w) ==
    \/ drv.pc = "del_entity" /\ holds(Driver, "gens") /\ holds(w, "app")
    \/ /\ drv.pc = "add_entity" /\ holds(Driver, "app")
       /\ get_gen(app.next) = 1 /\ holds(w, "gens")

\* Worker w is inside insert() or new_entities() and waits for a lock that
\* the driver holds for writing.
worker_waits_for_driver(w) ==
    \/ wk[w].pc = "insert" /\ locks["gens"].w = Driver
    \/ wk[w].pc = "new_entities" /\ locks["app"].w = Driver

\* C19: the driver inside add_entity or del_entity and a worker inside
\* insert() or new_entities() never hold one of the Appendix lock and the
\* table lock each while waiting for the other's.
C19_NoLockCycle ==
    \A w \in Workers : ~(driver_waits_for(w) /\ worker_waits_for_driver(w))

\* The entities worker w has called the functor for in its dispatch, those
\* of the first loop and then those of the second.
functor_calls(w) == wk[w].log1 \o wk[w].log2

\* C20: within one typed dispatch the functor is called at most once per
\* entity index, over both loops.
C20_OncePerIndex ==
    \A w \in Workers :
        \A i, j \in 1..Len(functor_calls(w)) :
            i # j => get_id(functor_calls(w)[i]) # get_id(functor_calls(w)[j])
====
